---- MODULE Spec2Model ----
(***************************************************************************)
(* Model of main_final.py: the in-memory virtual filesystem (class VFS),   *)
(* the command dispatcher (ShellEmulator.execute_command and the cmd_*     *)
(* handlers) and the startup-script runner                                 *)
(* (ConfigManager.execute_startup_script).                                 *)
(*                                                                         *)
(* A Python string is a sequence of characters.  The characters the code   *)
(* looks at are "/", "\\", ".", "#", " ", "'" and "\"" ; a run of ordinary   *)
(* letters that the code never looks inside (a command word such as "cd",  *)
(* a node name such as "home") is written as one element of the sequence.  *)
(* os.path is posixpath.                                                   *)
(***************************************************************************)
EXTENDS Integers, Sequences, FiniteSets, TLC

\* Number of lines the front end submits after the startup script.
MaxCmds == 2

----------------------------------------------------------------------------
(* Strings *)

Slash == "/"
Backslash == "\\"
Space == " "
SQuote == "'"
DQuote == "\""
Hash == "#"
Newline == "\n"
Whitespace == {Space}

\* tuple -> set of its elements
Range(s) == {s[i] : i \in 1..Len(s)}

\* s[i:] of Python, i counted from 1
Drop(s, n) == SubSeq(s, n + 1, Len(s))
Take(s, n) == SubSeq(s, 1, n)

RECURSIVE LStrip(_, _)
LStrip(s, chars) ==
  IF s # <<>> /\ Head(s) \in chars THEN LStrip(Tail(s), chars) ELSE s

RECURSIVE RStrip(_, _)
RStrip(s, chars) ==
  IF s # <<>> /\ s[Len(s)] \in chars THEN RStrip(Take(s, Len(s) - 1), chars) ELSE s

\* str.strip(chars)
Strip(s, chars) == RStrip(LStrip(s, chars), chars)

\* str.startswith("/")
StartsWith(s, ch) == s # <<>> /\ Head(s) = ch

\* str.endswith("/")
EndsWith(s, ch) == s # <<>> /\ s[Len(s)] = ch

\* str.split(sep): always at least one part, empty parts are kept
RECURSIVE SplitFrom(_, _, _, _)
SplitFrom(s, sep, cur, acc) ==
  IF s = <<>> THEN Append(acc, cur)
  ELSE IF Head(s) = sep THEN SplitFrom(Tail(s), sep, <<>>, Append(acc, cur))
  ELSE SplitFrom(Tail(s), sep, Append(cur, Head(s)), acc)

Split(s, sep) == SplitFrom(s, sep, <<>>, <<>>)

\* str.replace("\\", "/")
ReplaceBackslash(s) == [i \in 1..Len(s) |-> IF s[i] = Backslash THEN Slash ELSE s[i]]

\* sep.join(items)
RECURSIVE Join(_, _)
Join(items, sep) ==
  IF items = <<>> THEN <<>>
  ELSE IF Len(items) = 1 THEN items[1]
  ELSE items[1] \o <<sep>> \o Join(Tail(items), sep)

\* str.rfind("/") + 1, counted so that Take(s, RFindSlash(s)) is s[:i]
RECURSIVE RFindSlash(_)
RFindSlash(s) ==
  IF s = <<>> THEN 0
  ELSE IF s[Len(s)] = Slash THEN Len(s)
  ELSE RFindSlash(Take(s, Len(s) - 1))

\* posixpath.join(a, b)
PathJoin(a, b) ==
  IF StartsWith(b, Slash) THEN b
  ELSE IF a = <<>> \/ EndsWith(a, Slash) THEN a \o b
  ELSE a \o <<Slash>> \o b

\* posixpath.dirname(p)
Dirname(p) ==
  LET head == Take(p, RFindSlash(p))
  IN IF head # <<>> /\ Range(head) # {Slash} THEN RStrip(head, {Slash}) ELSE head

\* posixpath.basename(p)
Basename(p) == Drop(p, RFindSlash(p))

----------------------------------------------------------------------------
(* class VFS *)

\* A directory node is [type |-> "directory", content |-> entries, owner |-> o]
\* where entries is the dict in insertion order, a sequence of
\* [name |-> n, node |-> child]; a file node is
\* [type |-> "file", text |-> t, owner |-> o] (its "content" key, named text
\* here, holds a string, not a dict).  owner is <<>> when the key is absent
\* and <<o>> when node["owner"] = o.
Dir(entries) == [type |-> "directory", content |-> entries, owner |-> <<>>]
File(t) == [type |-> "file", text |-> t, owner |-> <<>>]
Entry(n, node) == [name |-> n, node |-> node]

\* Python's None, as the result of _get_node
None == [type |-> "none"]

\* Optional argument: <<>> is None, <<x>> is x
Some(x) == <<x>>

\* self.default_vfs
default_vfs ==
  [k \in {<<Slash>>} |->
     Dir(<< Entry(<<"home">>, Dir(<<>>)),
            Entry(<<"etc">>,
                  Dir(<< Entry(<<"motd">>, File(<<"Welcome to VFS Emulator!">>)) >>)),
            Entry(<<"bin">>, Dir(<<>>)),
            Entry(<<"tmp">>, Dir(<<>>)) >>)]

\* dict.keys() in insertion order
Keys(entries) == [i \in 1..Len(entries) |-> entries[i].name]

\* the key's position in the dict, 0 when absent
IndexOf(entries, key) ==
  IF \E i \in 1..Len(entries) : entries[i].name = key
  THEN CHOOSE i \in 1..Len(entries) : entries[i].name = key
  ELSE 0

\* del d[key]
DelKey(entries, key) ==
  LET i == IndexOf(entries, key)
  IN Take(entries, i - 1) \o Drop(entries, i)

\* filesystem.get("/")
GetRoot(fs) == IF <<Slash>> \in DOMAIN fs THEN fs[<<Slash>>] ELSE None

\* path.strip("/").split("/"), the keys _get_node follows from the root
PartsOf(path) == IF path = <<Slash>> THEN <<>> ELSE Split(Strip(path, {Slash}), Slash)

\* the loop of _get_node
RECURSIVE Walk(_, _)
Walk(node, parts) ==
  IF parts = <<>> THEN node
  ELSE IF node # None /\ node.type = "directory" /\ IndexOf(node.content, Head(parts)) # 0
       THEN Walk(node.content[IndexOf(node.content, Head(parts))].node, Tail(parts))
       ELSE None

_get_node(fs, path) == Walk(GetRoot(fs), PartsOf(path))

\* The tree after `del node["content"][item]` on the node _get_node reached
\* by following parts: the dicts are shared by reference, so the change is
\* seen from the root.
RECURSIVE DelAt(_, _, _)
DelAt(node, parts, item) ==
  IF parts = <<>> THEN [node EXCEPT !.content = DelKey(@, item)]
  ELSE LET i == IndexOf(node.content, Head(parts))
       IN [node EXCEPT !.content[i].node = DelAt(@, Tail(parts), item)]

\* The tree after `node["owner"] = owner` on the node reached by parts
RECURSIVE SetOwnerAt(_, _, _)
SetOwnerAt(node, parts, owner) ==
  IF parts = <<>> THEN [node EXCEPT !.owner = <<owner>>]
  ELSE LET i == IndexOf(node.content, Head(parts))
       IN [node EXCEPT !.content[i].node = SetOwnerAt(@, Tail(parts), owner)]

\* VFS.list_directory(path), path an optional argument
list_directory(fs, cur, optPath) ==
  LET path == IF optPath = <<>> THEN cur ELSE optPath[1]
      node == _get_node(fs, path)
  IN IF node # None /\ node.type = "directory" THEN Keys(node.content) ELSE <<>>

\* the path change_directory and remove resolve
TargetPath(cur, path) ==
  IF StartsWith(path, Slash) THEN path ELSE ReplaceBackslash(PathJoin(cur, path))

\* A change_directory that asks only whether the node exists
change_directory_AnyNode(fs, cur, path) ==
  IF path = <<".", ".">>
  THEN [ok |-> TRUE,
        current_dir |->
          IF cur # <<Slash>>
          THEN LET d == Dirname(RStrip(cur, {Slash}))
               IN IF d # <<>> THEN d ELSE <<Slash>>
          ELSE cur]
  ELSE LET target_path == TargetPath(cur, path)
           node == _get_node(fs, target_path)
       IN IF node # None
          THEN [ok |-> TRUE, current_dir |-> target_path]
          ELSE [ok |-> FALSE, current_dir |-> cur]

\* VFS.change_directory(path): [ok, current_dir]
change_directory(fs, cur, path) ==
  IF path = <<".", ".">>
  THEN [ok |-> TRUE,
        current_dir |->
          IF cur # <<Slash>>
          THEN LET d == Dirname(RStrip(cur, {Slash}))
               IN IF d # <<>> THEN d ELSE <<Slash>>
          ELSE cur]
  ELSE LET target_path == TargetPath(cur, path)
           node == _get_node(fs, target_path)
       IN IF node # None /\ node.type = "directory"
          THEN [ok |-> TRUE, current_dir |-> target_path]
          ELSE [ok |-> FALSE, current_dir |-> cur]

\* A remove that does not ask whether the name is in the parent and drops
\* it with content.pop(item_name, None)
remove_NoMembership(fs, cur, path) ==
  LET target_path == TargetPath(cur, path)
      parent_path == Dirname(target_path)
      item_name == Basename(target_path)
      parent_node == _get_node(fs, parent_path)
  IN IF parent_node # None /\ parent_node.type = "directory"
     THEN [ok |-> TRUE,
           filesystem |-> [fs EXCEPT ![<<Slash>>] = DelAt(@, PartsOf(parent_path), item_name)]]
     ELSE [ok |-> FALSE, filesystem |-> fs]

\* A remove that treats "/" as one more entry and deletes the key "/" of
\* self.filesystem
remove_RootToo(fs, cur, path) ==
  LET target_path == TargetPath(cur, path)
      parent_path == Dirname(target_path)
      item_name == Basename(target_path)
      parent_node == _get_node(fs, parent_path)
  IN IF target_path = <<Slash>>
     THEN [ok |-> TRUE, filesystem |-> [k \in {} |-> None]]
     ELSE IF parent_node # None /\ parent_node.type = "directory"
             /\ IndexOf(parent_node.content, item_name) # 0
     THEN [ok |-> TRUE,
           filesystem |-> [fs EXCEPT ![<<Slash>>] = DelAt(@, PartsOf(parent_path), item_name)]]
     ELSE [ok |-> FALSE, filesystem |-> fs]

\* VFS.remove(path): [ok, filesystem]
remove(fs, cur, path) ==
  LET target_path == TargetPath(cur, path)
      parent_path == Dirname(target_path)
      item_name == Basename(target_path)
      parent_node == _get_node(fs, parent_path)
  IN IF parent_node # None /\ parent_node.type = "directory"
        /\ IndexOf(parent_node.content, item_name) # 0
     THEN [ok |-> TRUE,
           filesystem |-> [fs EXCEPT ![<<Slash>>] = DelAt(@, PartsOf(parent_path), item_name)]]
     ELSE [ok |-> FALSE, filesystem |-> fs]

\* VFS.change_owner(path, owner): [ok, filesystem]
change_owner(fs, path, owner) ==
  LET node == _get_node(fs, path)
  IN IF node # None
     THEN [ok |-> TRUE,
           filesystem |-> [fs EXCEPT ![<<Slash>>] = SetOwnerAt(@, PartsOf(path), owner)]]
     ELSE [ok |-> FALSE, filesystem |-> fs]

\* A real directory as os.listdir and open() show it: a sequence, in listdir
\* order, of [name, kind, children | data], kind "dir", "text" (utf-8
\* decodable) or "binary".
RealDir(n, children) == [name |-> n, kind |-> "dir", children |-> children]
RealText(n, data) == [name |-> n, kind |-> "text", data |-> data]
RealBinary(n) == [name |-> n, kind |-> "binary"]

\* VFS._build_vfs_from_dir: the content dict built for one real directory
RECURSIVE _build_vfs_from_dir(_)
_build_vfs_from_dir(listing) ==
  [i \in 1..Len(listing) |->
     LET item == listing[i]
     IN Entry(item.name,
              IF item.kind = "dir" THEN Dir(_build_vfs_from_dir(item.children))
              ELSE IF item.kind = "text" THEN File(item.data)
              ELSE File(<<"Binary file: ">> \o item.name))]

\* VFS.load_from_directory
load_from_directory(listing) ==
  [k \in {<<Slash>>} |-> Dir(_build_vfs_from_dir(listing))]

\* VFS.__init__: physical is <<>> (no path, or a path that does not exist)
\* or <<[path, listing]>>
VFSInit(physical) ==
  IF physical # <<>> THEN load_from_directory(physical[1].listing) ELSE default_vfs

\* json.dumps(node, sort_keys=True) compares keys by code point; the names
\* of the model in that order
NameOrder == << <<"bin">>, <<"blob">>, <<"etc">>, <<"home">>, <<"motd">>,
                <<"notes">>, <<"tmp">>, <<"user">> >>

Rank(name) ==
  IF \E i \in 1..Len(NameOrder) : NameOrder[i] = name
  THEN CHOOSE i \in 1..Len(NameOrder) : NameOrder[i] = name
  ELSE 0

\* sorted(d.items()): insertion of each entry at its place
RECURSIVE InsertSorted(_, _)
InsertSorted(e, sorted) ==
  IF sorted = <<>> THEN <<e>>
  ELSE IF Rank(e.name) <= Rank(Head(sorted).name) THEN <<e>> \o sorted
  ELSE <<Head(sorted)>> \o InsertSorted(e, Tail(sorted))

\* json.dumps without sort_keys: the children stay in insertion order
SortEntries_InsertionOrder(entries) == entries

RECURSIVE SortEntries(_)
SortEntries(entries) ==
  IF entries = <<>> THEN <<>>
  ELSE InsertSorted(Head(entries), SortEntries(Tail(entries)))

\* json.dumps(node, sort_keys=True): keys "content", "owner", "type" in
\* that order, the owner key only when set
RECURSIVE Dumps(_)
Dumps(node) ==
  LET RECURSIVE Items(_)
      Items(es) ==
        IF es = <<>> THEN <<>>
        ELSE <<DQuote>> \o Head(es).name \o <<DQuote, ": ">> \o Dumps(Head(es).node)
             \o (IF Len(es) > 1 THEN <<", ">> ELSE <<>>) \o Items(Tail(es))
      body == IF node.type = "directory"
              THEN <<"{">> \o Items(SortEntries(node.content)) \o <<"}">>
              ELSE <<DQuote>> \o node.text \o <<DQuote>>
      own == IF node.owner = <<>> THEN <<>>
             ELSE <<", ", DQuote, "owner", DQuote, ": ", DQuote>> \o node.owner[1] \o <<DQuote>>
  IN <<"{", DQuote, "content", DQuote, ": ">> \o body \o own
     \o <<", ", DQuote, "type", DQuote, ": ", DQuote, node.type, DQuote, "}">>

\* hashlib.sha256(data).hexdigest(): a collision-free function of the data
Sha256(data) == <<"sha256(">> \o data \o <<")">>

\* VFS.get_vfs_info: <<name, sha256_hash>>
get_vfs_info(fs, physical) ==
  LET name == IF physical # <<>> THEN Basename(physical[1].path) ELSE <<"default_vfs">>
      vfs_data == <<"{", DQuote, Slash, DQuote, ": ">> \o Dumps(fs[<<Slash>>]) \o <<"}">>
  IN <<name, Sha256(vfs_data)>>

----------------------------------------------------------------------------
(* ShellEmulator: parsing *)

\* shlex.split(s): the posix-mode lexer with whitespace_split and no
\* commenters.  state is " " (between words), "a" (in a word), a quote
\* character or the escape character; [ok |-> FALSE] is ValueError
\* ("No closing quotation", "No escaped character").
RECURSIVE Lex(_, _, _, _, _, _)
Lex(rest, state, escapedstate, token, quoted, tokens) ==
  IF rest = <<>>
  THEN IF state \in {SQuote, DQuote, Backslash} THEN [ok |-> FALSE, parts |-> <<>>]
       ELSE IF state = "a" /\ (token # <<>> \/ quoted)
            THEN [ok |-> TRUE, parts |-> Append(tokens, token)]
            ELSE [ok |-> TRUE, parts |-> tokens]
  ELSE
    LET c == Head(rest)
        r == Tail(rest)
    IN CASE state = Space ->
              IF c \in Whitespace THEN Lex(r, Space, escapedstate, token, quoted, tokens)
              ELSE IF c = Backslash THEN Lex(r, Backslash, "a", token, quoted, tokens)
              ELSE IF c \in {SQuote, DQuote} THEN Lex(r, c, escapedstate, token, quoted, tokens)
              ELSE Lex(r, "a", escapedstate, <<c>>, quoted, tokens)
         [] state \in {SQuote, DQuote} ->
              IF c = state THEN Lex(r, "a", escapedstate, token, TRUE, tokens)
              ELSE IF c = Backslash /\ state = DQuote
                   THEN Lex(r, Backslash, state, token, TRUE, tokens)
              ELSE Lex(r, state, escapedstate, Append(token, c), TRUE, tokens)
         [] state = Backslash ->
              IF escapedstate \in {SQuote, DQuote} /\ c # Backslash /\ c # escapedstate
              THEN Lex(r, escapedstate, escapedstate, token \o <<Backslash, c>>, quoted, tokens)
              ELSE Lex(r, escapedstate, escapedstate, Append(token, c), quoted, tokens)
         [] OTHER ->
              IF c \in Whitespace
              THEN IF token # <<>> \/ quoted
                   THEN Lex(r, Space, Space, <<>>, FALSE, Append(tokens, token))
                   ELSE Lex(r, Space, escapedstate, token, quoted, tokens)
              ELSE IF c \in {SQuote, DQuote} THEN Lex(r, c, escapedstate, token, quoted, tokens)
              ELSE IF c = Backslash THEN Lex(r, Backslash, "a", token, quoted, tokens)
              ELSE Lex(r, "a", escapedstate, Append(token, c), quoted, tokens)

shlex_split(s) == Lex(s, Space, Space, <<>>, FALSE, <<>>)

\* ShellEmulator.parse_command: [raised, cmd, args]; raised is the
\* ValueError("syntax error: unclosed quotes") it re-raises
parse_command(cmd_str) ==
  LET sp == shlex_split(cmd_str)
  IN IF ~sp.ok THEN [raised |-> TRUE, cmd |-> <<>>, args |-> <<>>]
     ELSE IF sp.parts # <<>>
          THEN [raised |-> FALSE, cmd |-> sp.parts[1], args |-> Tail(sp.parts)]
          ELSE [raised |-> FALSE, cmd |-> <<>>, args |-> <<>>]

----------------------------------------------------------------------------
(* ShellEmulator: command handlers.  A handler returns (success, out); the
   record also carries the session fields it may change. *)

\* os.getlogin(), getpass.getuser() and socket.gethostname(): opaque strings
USER == <<"user">>
HOST == <<"host">>

Res(success, out, fs, cur, q) ==
  [success |-> success, out |-> out, filesystem |-> fs, current_dir |-> cur, quit |-> q]

\* A cmd_ls that reports an empty listing as a failure
cmd_ls_FailOnEmpty(fs, cur, q, args) ==
  LET path == IF args # <<>> THEN Some(args[1]) ELSE <<>>
      items == list_directory(fs, cur, path)
  IN Res(items # <<>>, IF items # <<>> THEN Join(items, Newline) ELSE <<"Directory is empty">>,
         fs, cur, q)

cmd_ls(fs, cur, q, args) ==
  LET path == IF args # <<>> THEN Some(args[1]) ELSE <<>>
      items == list_directory(fs, cur, path)
  IN Res(TRUE, IF items # <<>> THEN Join(items, Newline) ELSE <<"Directory is empty">>,
         fs, cur, q)

cmd_cd(fs, cur, q, args) ==
  IF args = <<>> THEN Res(FALSE, <<"Usage: cd <path>">>, fs, cur, q)
  ELSE LET r == change_directory(fs, cur, args[1])
       IN IF r.ok
          THEN Res(TRUE, <<"Current directory: ">> \o r.current_dir, fs, r.current_dir, q)
          ELSE Res(FALSE, <<"Directory not found: ">> \o args[1], fs, r.current_dir, q)

cmd_whoami(fs, cur, q, args) == Res(TRUE, USER, fs, cur, q)

cmd_who(fs, cur, q, args) ==
  LET users == << <<"admin">>, USER, <<"guest">> >>
  IN Res(TRUE, Join([i \in 1..Len(users) |-> users[i] \o <<"@">> \o HOST], Newline),
         fs, cur, q)

\* A cmd_rm that reports the opposite of what remove returned
cmd_rm_Inverted(fs, cur, q, args) ==
  IF args = <<>> THEN Res(FALSE, <<"Usage: rm <file>">>, fs, cur, q)
  ELSE LET r == remove(fs, cur, args[1])
       IN IF ~r.ok
          THEN Res(TRUE, <<"Removed: ">> \o args[1], r.filesystem, cur, q)
          ELSE Res(FALSE, <<"File not found: ">> \o args[1], r.filesystem, cur, q)

cmd_rm(fs, cur, q, args) ==
  IF args = <<>> THEN Res(FALSE, <<"Usage: rm <file>">>, fs, cur, q)
  ELSE LET r == remove(fs, cur, args[1])
       IN IF r.ok
          THEN Res(TRUE, <<"Removed: ">> \o args[1], r.filesystem, cur, q)
          ELSE Res(FALSE, <<"File not found: ">> \o args[1], r.filesystem, cur, q)

\* A cmd_chown whose argument test is off by one: chown with one argument
\* indexes args[1], and the IndexError is caught by execute_command
cmd_chown_OffByOne(fs, cur, q, args) ==
  IF Len(args) < 1 THEN Res(FALSE, <<"Usage: chown <owner> <file>">>, fs, cur, q)
  ELSE IF Len(args) < 2 THEN Res(FALSE, <<"Error: ", "list index out of range">>, fs, cur, q)
  ELSE LET r == change_owner(fs, args[2], args[1])
       IN IF r.ok
          THEN Res(TRUE, <<"Owner changed: ">> \o args[2] \o <<" -> ">> \o args[1],
                   r.filesystem, cur, q)
          ELSE Res(FALSE, <<"File not found: ">> \o args[2], r.filesystem, cur, q)

\* A cmd_chown that joins a relative path with the current directory, as
\* cd and rm do
cmd_chown_Joined(fs, cur, q, args) ==
  IF Len(args) < 2 THEN Res(FALSE, <<"Usage: chown <owner> <file>">>, fs, cur, q)
  ELSE LET r == change_owner(fs, TargetPath(cur, args[2]), args[1])
       IN IF r.ok
          THEN Res(TRUE, <<"Owner changed: ">> \o args[2] \o <<" -> ">> \o args[1],
                   r.filesystem, cur, q)
          ELSE Res(FALSE, <<"File not found: ">> \o args[2], r.filesystem, cur, q)

cmd_chown(fs, cur, q, args) ==
  IF Len(args) < 2 THEN Res(FALSE, <<"Usage: chown <owner> <file>">>, fs, cur, q)
  ELSE LET r == change_owner(fs, args[2], args[1])
       IN IF r.ok
          THEN Res(TRUE, <<"Owner changed: ">> \o args[2] \o <<" -> ">> \o args[1],
                   r.filesystem, cur, q)
          ELSE Res(FALSE, <<"File not found: ">> \o args[2], r.filesystem, cur, q)

cmd_vfs_info(fs, cur, q, physical, args) ==
  LET info == get_vfs_info(fs, physical)
  IN Res(TRUE, <<"VFS: ">> \o info[1] \o <<Newline, "SHA-256: ">> \o info[2], fs, cur, q)

cmd_history(fs, cur, q, hist, args) == Res(TRUE, Join(hist, Newline), fs, cur, q)

\* the text of cmd_help, one line per command: the name and its description
HelpLines ==
  << <<"ls", " [path] - list files">>,
     <<"cd", " <path> - change directory">>,
     <<"whoami", " - current user">>,
     <<"who", " - list of users">>,
     <<"rm", " <file> - remove a file">>,
     <<"chown", " <owner> <file> - change owner">>,
     <<"vfs-info", " - information about the VFS">>,
     <<"history", " - command history">>,
     <<"help", " - help">>,
     <<"exit", " - leave the emulator">> >>

cmd_help(fs, cur, q, args) ==
  Res(TRUE, <<"Available commands:", Newline>> \o Join(HelpLines, Newline) \o <<Newline>>,
      fs, cur, q)

\* lambda a: (True, self.root.quit() or "")
cmd_exit(fs, cur, q, args) == Res(TRUE, <<>>, fs, cur, TRUE)

\* the keys of `mapping` in execute_command
Commands ==
  { <<"ls">>, <<"cd">>, <<"whoami">>, <<"who">>, <<"rm">>, <<"chown">>,
    <<"vfs-info">>, <<"help">>, <<"history">>, <<"exit">> }

\* A dispatch that calls mapping.get(cmd) without asking whether it is None:
\* the TypeError is caught by execute_command's except clause
Dispatch_CallNone(fs, cur, q, hist, physical, cmd, args) ==
  CASE cmd = <<"ls">> -> cmd_ls(fs, cur, q, args)
    [] cmd = <<"cd">> -> cmd_cd(fs, cur, q, args)
    [] cmd = <<"whoami">> -> cmd_whoami(fs, cur, q, args)
    [] cmd = <<"who">> -> cmd_who(fs, cur, q, args)
    [] cmd = <<"rm">> -> cmd_rm(fs, cur, q, args)
    [] cmd = <<"chown">> -> cmd_chown(fs, cur, q, args)
    [] cmd = <<"vfs-info">> -> cmd_vfs_info(fs, cur, q, physical, args)
    [] cmd = <<"help">> -> cmd_help(fs, cur, q, args)
    [] cmd = <<"history">> -> cmd_history(fs, cur, q, hist, args)
    [] cmd = <<"exit">> -> cmd_exit(fs, cur, q, args)
    [] OTHER -> Res(FALSE, <<"Error: ", "'NoneType' object is not callable">>, fs, cur, q)

\* func = mapping.get(cmd); func(args) if func else (False, "unknown command")
Dispatch(fs, cur, q, hist, physical, cmd, args) ==
  CASE cmd = <<"ls">> -> cmd_ls(fs, cur, q, args)
    [] cmd = <<"cd">> -> cmd_cd(fs, cur, q, args)
    [] cmd = <<"whoami">> -> cmd_whoami(fs, cur, q, args)
    [] cmd = <<"who">> -> cmd_who(fs, cur, q, args)
    [] cmd = <<"rm">> -> cmd_rm(fs, cur, q, args)
    [] cmd = <<"chown">> -> cmd_chown(fs, cur, q, args)
    [] cmd = <<"vfs-info">> -> cmd_vfs_info(fs, cur, q, physical, args)
    [] cmd = <<"help">> -> cmd_help(fs, cur, q, args)
    [] cmd = <<"history">> -> cmd_history(fs, cur, q, hist, args)
    [] cmd = <<"exit">> -> cmd_exit(fs, cur, q, args)
    [] OTHER -> Res(FALSE, <<"Error: unknown command '">> \o cmd \o <<"'">>, fs, cur, q)

\* A log_command that records every command as a success
LogRow_AlwaysSuccess(command, success, error_msg) ==
  [command |-> command, success |-> TRUE, error_message |-> error_msg,
   username |-> USER]

\* ConfigManager.log_command: the row handed to the logger (the timestamp
\* is the logger's clock and is left out)
LogRow(command, success, error_msg) ==
  [command |-> command, success |-> success, error_message |-> error_msg,
   username |-> USER]

\* `except Exception as e` of execute_command: the exception classes it
\* catches
ExceptClause(exc) == exc \in {"Exception", "ValueError", "KeyError", "TypeError", "OSError"}

\* ShellEmulator.execute_command(cmd_str, from_script) on a session
\* s = [filesystem, current_dir, command_history, log, quit]: the session
\* after the call, with the returned (success, out), the texts handed to
\* print_output (rendered), the handler called ("" when none) and whether
\* an exception left the call (escaped).
execute_command(s, physical, cmd_str, from_script) ==
  LET echo == IF ~from_script THEN << <<"> ">> \o cmd_str \o <<Newline>> >> ELSE <<>>
      p == parse_command(cmd_str)
      hist == Append(s.command_history, cmd_str)
      r == Dispatch(s.filesystem, s.current_dir, s.quit, hist, physical, p.cmd, p.args)
      msg == <<"Error: ", "Syntax error: unclosed quotes">>
  IN IF cmd_str = <<>>
     THEN s @@ [success |-> TRUE, out |-> <<>>, rendered |-> <<>>, handler |-> <<>>,
                escaped |-> FALSE]
     ELSE IF p.raised
     THEN IF ExceptClause("ValueError")
          THEN [s EXCEPT !.log = Append(@, LogRow(cmd_str, FALSE, msg))]
               @@ [success |-> FALSE, out |-> msg,
                   rendered |-> Append(echo, msg \o <<Newline>>), handler |-> <<>>,
                   escaped |-> FALSE]
          ELSE s @@ [success |-> FALSE, out |-> <<>>, rendered |-> echo, handler |-> <<>>,
                     escaped |-> TRUE]
     ELSE [filesystem |-> r.filesystem, current_dir |-> r.current_dir,
           command_history |-> hist,
           log |-> Append(s.log, LogRow(cmd_str, r.success, IF r.success THEN <<>> ELSE r.out)),
           quit |-> r.quit, success |-> r.success, out |-> r.out,
           rendered |-> IF r.out # <<>> THEN Append(echo, r.out \o <<Newline>>) ELSE echo,
           handler |-> IF p.cmd \in Commands THEN p.cmd ELSE <<>>,
           escaped |-> FALSE]

----------------------------------------------------------------------------
(* The session *)

VARIABLES
  physical_path,    \* VFS.physical_path with the directory found there
  filesystem,       \* VFS.filesystem
  current_dir,      \* VFS.current_dir
  command_history,  \* ShellEmulator.command_history
  log,              \* the rows log_command was called with
  quit,             \* root.quit() was called and no mainloop started since
  script,           \* the lines of the file at params['script_path']
  line_num,         \* lines of the script read so far
  executed,         \* the script lines handed to execute_command, with results
  script_result,    \* what execute_startup_script returned, "none" before
  reported_line,    \* the line number of its error message, 0 when none
  pc,               \* "script", "constructed" (__init__ returned), "interactive"
                    \* (in root.mainloop) or "closed"
  ncmds,            \* submissions of the front end so far
  submitted,        \* every non-empty cmd_str execute_command was called with
  last              \* the last call of execute_command: its arguments, the
                    \* session before it and what it returned

vars == <<physical_path, filesystem, current_dir, command_history, log, quit, script,
          line_num, executed, script_result, reported_line, pc, ncmds, submitted, last>>

\* a directory on disk to mirror
SampleDir ==
  [path |-> <<Slash, "srv", Slash, "vfs">>,
   listing |->
     << RealDir(<<"home">>,
                << RealDir(<<"user">>, << RealText(<<"notes">>, <<"hello">>) >>) >>),
        RealDir(<<"etc">>,
                << RealText(<<"motd">>, <<"hi">>), RealBinary(<<"blob">>) >>) >>]

PhysicalPaths == { <<>>, <<SampleDir>> }

\* startup scripts, as the lines of the file
Scripts ==
  { <<>>,
    << <<"ls">>, <<"cd", Space, Slash, "nowhere">>, <<"ls">> >>,
    << <<Hash, Space, "setup">>, <<>>, <<"cd", Space, Slash, "home">>,
       <<Space, "rm", Space, Slash, "home", Space>>, <<"ls">>, <<"who">>, <<"whoami">>,
       <<"help">>, <<"vfs-info">> >>,
    << <<"cd", Space, Slash, "etc">>, <<"exit">>, <<"chown", Space, "u", Space, "motd">>,
       <<"whoami">> >>,
    << <<"exit">>, <<"foo">>, <<"ls">> >>,
    << <<"cd", Space, Slash, Slash, "home">>, <<Space, Hash, "up">>,
       <<"cd", Space, ".", ".">>, <<"ls", Space, DQuote, "foo">>, <<"help">> >> }

\* what the user may type into the entry before pressing Return
Inputs ==
  { <<>>, <<Space, Space>>, <<Space, "ls", Space>>,
    <<"ls">>, <<"ls", Space, Slash, "etc", Slash, "motd">>, <<"ls", Space, "user">>,
    <<"cd">>, <<"cd", Space, Slash, "etc">>, <<"cd", Space, "home">>,
    <<"cd", Space, ".", ".">>, <<"cd", Space, Slash, "home", Slash>>,
    <<"cd", Space, Slash, Slash, "home">>, <<"cd", Space, Slash, "etc", Slash, "motd">>,
    <<"cd", Space, SQuote, "home", Backslash, "user", SQuote>>,
    <<"rm">>, <<"rm", Space, Slash, "home">>, <<"rm", Space, "motd">>,
    <<"rm", Space, Slash, "home", Slash>>, <<"rm", Space, Slash>>,
    <<"chown", Space, "u">>, <<"chown", Space, "u", Space, Slash, "etc", Slash, "motd">>,
    <<"chown", Space, "u", Space, "motd">>, <<"chown", Space, "u", Space, Slash>>,
    <<"vfs-info">>, <<"history">>, <<"exit">>,
    <<"foo", Space, "bar">>, <<SQuote, SQuote>>, <<"ls", Space, DQuote, "foo">>,
    <<"ls", Backslash>> }

Session ==
  [filesystem |-> filesystem, current_dir |-> current_dir,
   command_history |-> command_history, log |-> log, quit |-> quit]

NoCall ==
  [n |-> 0, cmd_str |-> <<>>, from_script |-> FALSE, pre |-> <<>>, success |-> TRUE,
   out |-> <<>>, rendered |-> <<>>, handler |-> <<>>, escaped |-> FALSE]

\* the record of one call of execute_command
Call(s, cmd_str, from_script, r) ==
  [n |-> last.n + 1, cmd_str |-> cmd_str, from_script |-> from_script, pre |-> <<s>>,
   success |-> r.success, out |-> r.out, rendered |-> r.rendered, handler |-> r.handler,
   escaped |-> r.escaped]

\* the session fields after a call
Apply(r) ==
  /\ filesystem' = r.filesystem
  /\ current_dir' = r.current_dir
  /\ command_history' = r.command_history
  /\ log' = r.log
  /\ quit' = r.quit

\* ShellEmulator.__init__ up to the startup script: the VFS is built and the
\* history is empty
Init ==
  /\ physical_path \in PhysicalPaths
  /\ filesystem = VFSInit(physical_path)
  /\ current_dir = <<Slash>>
  /\ command_history = <<>>
  /\ log = <<>>
  /\ quit = FALSE
  /\ script \in Scripts
  /\ line_num = 0
  /\ executed = <<>>
  /\ script_result = "none"
  /\ reported_line = 0
  /\ pc = "script"
  /\ ncmds = 0
  /\ submitted = <<>>
  /\ last = NoCall

\* A script loop that goes on to the next line after a failure
OnLineResult_Continue(success, n, result, reported, p) == <<result, reported, p>>

\* `if not success: print(line_num); return False` of execute_startup_script:
\* <<script_result, reported_line, pc>> after a line returned success
OnLineResult(success, n, result, reported, p) ==
  IF ~success THEN <<"False", n, "constructed">> ELSE <<result, reported, p>>

\* One iteration of the loop of execute_startup_script: a blank or comment
\* line is skipped; any other line is executed, and a failure returns False
\* to __init__, which shows the warning and returns.
ScriptLine ==
  /\ pc = "script"
  /\ line_num < Len(script)
  /\ LET line == Strip(script[line_num + 1], Whitespace)
         r == execute_command(Session, physical_path, line, TRUE)
     IN /\ line_num' = line_num + 1
        /\ IF line = <<>> \/ StartsWith(line, Hash)
           THEN UNCHANGED <<filesystem, current_dir, command_history, log, quit, executed,
                            script_result, reported_line, pc, submitted, last>>
           ELSE /\ Apply(r)
                /\ submitted' = Append(submitted, line)
                /\ last' = Call(Session, line, TRUE, r)
                /\ executed' = Append(executed, [line |-> line_num + 1, success |-> r.success])
                /\ LET o == OnLineResult(r.success, line_num + 1, script_result,
                                         reported_line, pc)
                   IN /\ script_result' = o[1]
                      /\ reported_line' = o[2]
                      /\ pc' = o[3]
  /\ UNCHANGED <<physical_path, script, ncmds>>

\* The script is exhausted (or there is none): execute_startup_script returns
\* True.
ScriptEnd ==
  /\ pc = "script"
  /\ line_num = Len(script)
  /\ script_result' = "True"
  /\ pc' = "constructed"
  /\ UNCHANGED <<physical_path, filesystem, current_dir, command_history, log, quit, script,
                 line_num, executed, reported_line, ncmds, submitted, last>>

\* main() enters root.mainloop(), which clears a quit requested before it
EnterMainloop ==
  /\ pc = "constructed"
  /\ pc' = "interactive"
  /\ quit' = FALSE
  /\ UNCHANGED <<physical_path, filesystem, current_dir, command_history, log, script,
                 line_num, executed, script_result, reported_line, ncmds, submitted, last>>

\* <Return> or the button: execute_command() reads and strips the entry
Submit(text) ==
  /\ pc = "interactive"
  /\ ~quit
  /\ ncmds < MaxCmds
  /\ LET cmd_str == Strip(text, Whitespace)
         r == execute_command(Session, physical_path, cmd_str, FALSE)
     IN /\ Apply(r)
        /\ last' = Call(Session, cmd_str, FALSE, r)
        /\ submitted' = IF cmd_str # <<>> THEN Append(submitted, cmd_str) ELSE submitted
  /\ ncmds' = ncmds + 1
  /\ UNCHANGED <<physical_path, script, line_num, executed, script_result, reported_line, pc>>

\* root.quit() ends root.mainloop() and main() returns
MainloopEnd ==
  /\ pc = "interactive"
  /\ quit
  /\ pc' = "closed"
  /\ UNCHANGED <<physical_path, filesystem, current_dir, command_history, log, quit, script,
                 line_num, executed, script_result, reported_line, ncmds, submitted, last>>

\* WM_DELETE_WINDOW: app.config.close(), root.destroy()
CloseWindow ==
  /\ pc = "interactive"
  /\ ~quit
  /\ pc' = "closed"
  /\ UNCHANGED <<physical_path, filesystem, current_dir, command_history, log, quit, script,
                 line_num, executed, script_result, reported_line, ncmds, submitted, last>>

Next ==
  \/ ScriptLine
  \/ ScriptEnd
  \/ EnterMainloop
  \/ \E text \in Inputs : Submit(text)
  \/ MainloopEnd
  \/ CloseWindow

Spec == Init /\ [][Next]_vars

----------------------------------------------------------------------------
(* Properties *)

\* the session before the last call of execute_command
Pre == last.pre[1]

\* what the last call's line parsed to
Parsed == parse_command(last.cmd_str)

\* the last call reached the handler of command c
Ran(c) == last.n > 0 /\ last.handler = <<c>>

\* the non-empty segments of a path
Segs(path) == SelectSeq(Split(path, Slash), LAMBDA x : x # <<>>)

Front(s) == SubSeq(s, 1, Len(s) - 1)

\* the node a sequence of names leads to from node, None when there is none
RECURSIVE NodeAt(_, _)
NodeAt(node, segs) ==
  IF segs = <<>> THEN node
  ELSE IF node.type = "directory" /\ \E i \in 1..Len(node.content) : node.content[i].name = Head(segs)
       THEN NodeAt(node.content[CHOOSE i \in 1..Len(node.content) :
                                  node.content[i].name = Head(segs)].node, Tail(segs))
       ELSE None

Root(fs) == fs[<<Slash>>]

IsDirectory(node) == node # None /\ node.type = "directory"

\* line i of the script is one the runner executes
Runnable(i) ==
  LET line == Strip(script[i], Whitespace)
  IN line # <<>> /\ ~StartsWith(line, Hash)

\* the numbers of the runnable lines among the first n, in order
RunnableUpTo(n) == SelectSeq([i \in 1..n |-> i], Runnable)

\* C1: the startup script runs its non-blank, non-comment lines in order,
\* stops at the first line that fails, returns False and reports that line's
\* 1-based number; no later line is executed (nothing more reaches the log),
\* and it returns True exactly when every executed line succeeded.
C1_ScriptFailFast ==
  /\ [k \in 1..Len(executed) |-> executed[k].line] = RunnableUpTo(line_num)
  /\ \A k \in 1..Len(executed) - 1 : executed[k].success
  /\ script_result = "False" <=>
       (executed # <<>> /\ ~executed[Len(executed)].success)
  /\ script_result = "False" =>
       /\ reported_line = executed[Len(executed)].line
       /\ reported_line = line_num
       /\ pc # "script"
  /\ script_result = "True" <=>
       (pc # "script" /\ \A k \in 1..Len(executed) : executed[k].success)
  /\ script_result = "True" => line_num = Len(script)
  /\ script_result = "none" <=> pc = "script"
  /\ ncmds = 0 =>
       /\ Len(log) = Len(executed)
       /\ \A k \in 1..Len(executed) :
            /\ log[k].command = Strip(script[executed[k].line], Whitespace)
            /\ log[k].success = executed[k].success

\* the script ["ls", "cd /nowhere", "ls"] stopped at line 2
C1_Witness ==
  /\ script = << <<"ls">>, <<"cd", Space, Slash, "nowhere">>, <<"ls">> >>
  /\ script_result = "False"
  /\ reported_line = 2
  /\ Len(log) = 2

\* the path remove works on
RmTarget == TargetPath(Pre.current_dir, Parsed.args[1])

\* C2: after remove(P) returns true, list on P's parent does not contain P's
\* last name (and P no longer resolves); remove of a path that does not
\* exist returns false and leaves the whole tree and the cursor unchanged.
C2_RemoveThenList ==
  (Ran("rm") /\ Parsed.args # <<>>) =>
    /\ current_dir = Pre.current_dir
    /\ last.success =>
         /\ \A i \in 1..Len(list_directory(filesystem, current_dir, Some(Dirname(RmTarget)))) :
              list_directory(filesystem, current_dir, Some(Dirname(RmTarget)))[i]
                # Basename(RmTarget)
         /\ NodeAt(Root(filesystem), Segs(RmTarget)) = None
         /\ NodeAt(Root(Pre.filesystem), Segs(RmTarget)) # None
    /\ NodeAt(Root(Pre.filesystem), Segs(RmTarget)) = None =>
         /\ ~last.success
         /\ filesystem = Pre.filesystem

\* a relative rm from a directory other than the root removed a node
C2_Witness ==
  /\ Ran("rm")
  /\ last.success
  /\ Pre.current_dir # <<Slash>>
  /\ ~StartsWith(Parsed.args[1], Slash)
  /\ filesystem # Pre.filesystem

\* the path change_directory resolves
CdTarget == TargetPath(Pre.current_dir, Parsed.args[1])

\* C3: cd with a path other than ".." moves the cursor only when the path
\* denotes a Directory; when it denotes a file or does not resolve, it
\* returns false and current_dir is what it was before the call.
C3_CdOnlyToDirectory ==
  (Ran("cd") /\ Parsed.args # <<>> /\ Parsed.args[1] # <<".", ".">>) =>
    /\ filesystem = Pre.filesystem
    /\ current_dir # Pre.current_dir =>
         IsDirectory(NodeAt(Root(Pre.filesystem), Segs(CdTarget)))
    /\ last.success =>
         /\ IsDirectory(NodeAt(Root(Pre.filesystem), Segs(CdTarget)))
         /\ current_dir = CdTarget
    /\ ~IsDirectory(NodeAt(Root(Pre.filesystem), Segs(CdTarget))) =>
         /\ ~last.success
         /\ current_dir = Pre.current_dir

\* cd to a file was refused from a directory other than the root
C3_Witness ==
  /\ Ran("cd")
  /\ Parsed.args # <<>>
  /\ NodeAt(Root(Pre.filesystem), Segs(CdTarget)) # None
  /\ NodeAt(Root(Pre.filesystem), Segs(CdTarget)).type = "file"
  /\ ~last.success
  /\ current_dir = Pre.current_dir

\* C4: after any sequence of commands current_dir resolves to an existing
\* Directory node.
C4_CursorResolves == IsDirectory(_get_node(filesystem, current_dir))

\* the absolute form of the path of child name under the directory at cur
AbsoluteOf(cur, name) ==
  <<Slash>> \o Join(Append(Segs(cur), name), Slash)

\* the names under the directory the cursor is at
CursorChildren ==
  IF IsDirectory(_get_node(filesystem, current_dir))
  THEN Range(Keys(_get_node(filesystem, current_dir).content))
  ELSE {}

\* C5: for every node and every cursor position, ls, cd, rm and chown act
\* on the same node whether its path is given in absolute form or as the
\* equivalent relative path from the current directory.
C5_AbsoluteRelativeSameNode ==
  \A name \in CursorChildren :
    LET abs == AbsoluteOf(current_dir, name)
        cdRel == change_directory(filesystem, current_dir, name)
        cdAbs == change_directory(filesystem, current_dir, abs)
    IN /\ _get_node(filesystem, abs)
            = NodeAt(_get_node(filesystem, current_dir), <<name>>)
       /\ list_directory(filesystem, current_dir, Some(name))
            = list_directory(filesystem, current_dir, Some(abs))
       /\ cdRel.ok = cdAbs.ok
       /\ _get_node(filesystem, cdRel.current_dir) = _get_node(filesystem, cdAbs.current_dir)
       /\ remove(filesystem, current_dir, name) = remove(filesystem, current_dir, abs)
       /\ change_owner(filesystem, name, <<"u">>) = change_owner(filesystem, abs, <<"u">>)

\* C6: after N submitted non-empty command lines, successful or failed, the
\* history holds exactly those N lines, verbatim, in submission order, and
\* the history command returns them newline-joined.
C6_HistoryComplete ==
  /\ command_history = submitted
  /\ Ran("history") => last.out = Join(submitted, Newline)

\* the last call's line has an unterminated quote
SyntaxError ==
  /\ last.n > 0
  /\ Range(last.cmd_str) \cap {SQuote, DQuote} # {}
  /\ ~shlex_split(last.cmd_str).ok

\* C7: a line with an unterminated quote returns success=false with a
\* syntax-error message, calls no handler (tree and cursor unchanged), and is
\* recorded exactly once in the history and exactly once in the log with
\* success=false.
C7_SyntaxErrorRecorded ==
  SyntaxError =>
    /\ ~last.success
    /\ last.out = <<"Error: ", "Syntax error: unclosed quotes">>
    /\ last.handler = <<>>
    /\ filesystem = Pre.filesystem
    /\ current_dir = Pre.current_dir
    /\ log = Append(Pre.log, [command |-> last.cmd_str, success |-> FALSE,
                              error_message |-> last.out, username |-> USER])
    /\ command_history = Append(Pre.command_history, last.cmd_str)

\* the row the logger must receive for the last call
ExpectedRow ==
  [command |-> last.cmd_str, success |-> last.success,
   error_message |-> IF last.success THEN <<>> ELSE last.out, username |-> USER]

\* C8 as stated: every top-level call of execute_command invokes the logger
\* exactly once, with the raw command text, the returned success flag, and
\* an error text that is empty on success and the message on failure.
C8_EveryCallLogged ==
  last.n > 0 => log = Append(Pre.log, ExpectedRow)

\* C8 amended: every call with a non-empty command line invokes the logger
\* exactly once with that row; a call with an empty line invokes it not at all.
C8_NonEmptyCallLogged ==
  last.n > 0 =>
    IF last.cmd_str # <<>>
    THEN log = Append(Pre.log, ExpectedRow)
    ELSE log = Pre.log

\* a failed handler, a failed parse and an unknown command were each logged
C8_Witness ==
  /\ Len(log) >= 3
  /\ \E i, j, k \in 1..Len(log) :
       /\ ~log[i].success /\ ~shlex_split(log[i].command).ok
       /\ ~log[j].success /\ parse_command(log[j].command).cmd = <<"cd">>
       /\ ~log[k].success /\ parse_command(log[k].command).cmd = <<"foo">>
  /\ last.n > 0
  /\ last.cmd_str # <<>>

\* s occurs in t as a run of consecutive characters
Contains(t, s) == \E i \in 0..(Len(t) - Len(s)) : SubSeq(t, i + 1, i + Len(s)) = s

\* the last call's line named no registered command
UnknownCommand ==
  last.n > 0 /\ last.cmd_str # <<>> /\ ~Parsed.raised /\ Parsed.cmd \notin Commands

\* C9: an unknown command name yields (false, a message naming the command),
\* changes neither tree nor cursor, and is not fatal: no exception leaves
\* execute_command, and the interactive session goes on accepting commands.
C9_UnknownCommandRecoverable ==
  /\ ~last.escaped
  /\ UnknownCommand =>
       /\ ~last.success
       /\ last.out = <<"Error: unknown command '">> \o Parsed.cmd \o <<"'">>
       /\ Contains(last.out, Parsed.cmd)
       /\ last.handler = <<>>
       /\ filesystem = Pre.filesystem
       /\ current_dir = Pre.current_dir
       /\ (last.from_script /\ pc \in {"script", "constructed"}) => quit = Pre.quit
       /\ ~last.from_script => (quit = Pre.quit /\ ~quit /\ pc \in {"interactive", "closed"})
       /\ (pc = "interactive" /\ ncmds < MaxCmds) => ENABLED (\E text \in Inputs : Submit(text))

\* an unknown command was submitted interactively, and the command before it
\* was unknown too
C9_Witness ==
  /\ UnknownCommand
  /\ ~last.from_script
  /\ Parsed.cmd = <<"foo">>
  /\ Len(Pre.log) >= 1
  /\ ~Pre.log[Len(Pre.log)].success
  /\ parse_command(Pre.log[Len(Pre.log)].command).cmd \notin Commands

\* C10: cd ".." returns true in every state; at root the cursor is
\* unchanged, and at a non-root directory the new cursor is the path of that
\* directory's parent, one segment closer to the root.
C10_CdUp ==
  (Ran("cd") /\ Parsed.args # <<>> /\ Parsed.args[1] = <<".", ".">>) =>
    /\ last.success
    /\ Pre.current_dir = <<Slash>> => current_dir = <<Slash>>
    /\ (Pre.current_dir # <<Slash>> /\ IsDirectory(_get_node(Pre.filesystem, Pre.current_dir))) =>
         /\ Segs(current_dir) = Front(Segs(Pre.current_dir))
         /\ _get_node(filesystem, current_dir)
              = NodeAt(Root(filesystem), Front(Segs(Pre.current_dir)))

\* paths written with leading, trailing and doubled slashes, with their
\* plain forms
SlashedPaths ==
  { <<Slash, "etc", Slash, "motd">>, <<Slash, "etc", Slash, Slash, "motd">>,
    <<Slash, Slash, "etc", Slash, "motd">>, <<Slash, "etc", Slash, "motd", Slash>>,
    <<Slash, "home">>, <<Slash, "home", Slash>>, <<Slash, Slash, "home">>,
    <<Slash, "home", Slash, Slash, "user">>, <<Slash, "home", Slash, "user", Slash, Slash>>,
    <<Slash, "etc", Slash, "nowhere">>, <<Slash, "etc", Slash, "motd", Slash, "x">>,
    <<Slash>>, <<Slash, Slash>> }

\* C11: path resolution ignores empty segments wherever they occur: a path
\* with leading, trailing or doubled slashes resolves to the node of the path
\* without them, and is not found only when a non-empty segment is missing or
\* an intermediate node is not a Directory.
C11_EmptySegmentsIgnored ==
  \A path \in SlashedPaths :
    _get_node(filesystem, path) = NodeAt(Root(filesystem), Segs(path))

\* the states in which a tree is first seen: the loaded one, and the one a
\* command has just changed
NewTree == last.n = 0 \/ filesystem # Pre.filesystem

\* the states in which a cursor position is first seen on a tree
NewCursor == NewTree \/ current_dir # Pre.current_dir

\* the paths C12 names: the root, the empty path, trailing slashes
RootishPaths ==
  { <<Slash>>, <<>>, <<Slash, "etc", Slash>> }

HasOneRoot(fs) == DOMAIN fs = {<<Slash>>} /\ fs[<<Slash>>].type = "directory"

\* C12: after any sequence of commands, including rm and chown applied to
\* "/", "" or paths with trailing slashes, the tree has exactly one root node
\* at path "/" and it is a Directory; no command removes or replaces the root.
C12_OneRoot ==
  /\ HasOneRoot(filesystem)
  /\ NewCursor =>
       \A path \in RootishPaths :
         LET r == cmd_rm(filesystem, current_dir, quit, <<path>>)
         IN /\ HasOneRoot(r.filesystem)
            /\ Segs(TargetPath(current_dir, path)) = <<>> =>
                 (~r.success /\ r.filesystem = filesystem)
  /\ NewTree =>
       \A path \in RootishPaths :
         HasOneRoot(cmd_chown(filesystem, current_dir, quit, <<(<<"u">>), path>>).filesystem)
  /\ (Ran("rm") /\ Parsed.args # <<>> /\ Segs(RmTarget) = <<>>) =>
       (~last.success /\ filesystem = Pre.filesystem)
  /\ (Ran("chown") /\ Len(Parsed.args) >= 2 /\ Parsed.args[2] = <<Slash>>) =>
       /\ last.success
       /\ filesystem = [Pre.filesystem EXCEPT ![<<Slash>>].owner = <<Parsed.args[1]>>]

\* rm / was refused on a tree whose root had been given an owner by chown u /
C12_Witness ==
  /\ Ran("rm")
  /\ Parsed.args = << <<Slash>> >>
  /\ ~last.success
  /\ Root(filesystem).owner = << <<"u">> >>
  /\ Len(Root(filesystem).content) >= 2

\* the paths (as segment sequences, <<>> for the root) of all nodes under node
RECURSIVE PathsOf(_)
PathsOf(node) ==
  {<<>>} \cup
  (IF node.type = "directory"
   THEN UNION { { <<node.content[i].name>> \o p : p \in PathsOf(node.content[i].node) }
                : i \in 1..Len(node.content) }
   ELSE {})

Paths(fs) == PathsOf(Root(fs))

\* what a node is apart from its owner and its children's nodes
Shape(node) ==
  IF node.type = "directory" THEN <<"directory", Keys(node.content)>>
  ELSE <<"file", node.text>>

\* the directory at segs lost one child and nothing else
LostOneChild(before, after) ==
  /\ before.type = "directory" /\ after.type = "directory"
  /\ \E i \in 1..Len(before.content) :
       Keys(after.content) = Take(Keys(before.content), i - 1) \o Drop(Keys(before.content), i)

\* C13: after the initial load no command creates a node: the set of node
\* paths only shrinks, and only a successful rm shrinks it; the owner of a
\* node changes only by a successful chown; ls, cd, whoami, who, vfs-info,
\* history, help and every failed command leave the tree unchanged.
C13_TreeFrame ==
  last.n > 0 =>
    /\ filesystem # Pre.filesystem =>
         /\ Paths(filesystem) \subseteq Paths(Pre.filesystem)
         /\ Paths(filesystem) # Paths(Pre.filesystem) => (Ran("rm") /\ last.success)
         /\ \A p \in Paths(filesystem) :
              LET before == NodeAt(Root(Pre.filesystem), p)
                  after == NodeAt(Root(filesystem), p)
              IN /\ Shape(after) = Shape(before) \/ LostOneChild(before, after)
                 /\ after.owner # before.owner => (Ran("chown") /\ last.success)
    /\ (~last.success \/ ~(Ran("rm") \/ Ran("chown"))) => filesystem = Pre.filesystem

\* a successful rm shrank the tree that a successful chown had changed
\* before, and the cursor was moved by neither
C13_Witness ==
  /\ Ran("rm") /\ last.success
  /\ Paths(filesystem) # Paths(Pre.filesystem)
  /\ \E p \in Paths(filesystem) : NodeAt(Root(filesystem), p).owner # <<>>
  /\ Len(command_history) >= 2

Reverse(seq) == [i \in 1..Len(seq) |-> seq[Len(seq) + 1 - i]]

\* the same tree with the children of every directory inserted in the
\* opposite order
RECURSIVE Reversed(_)
Reversed(node) ==
  IF node.type = "directory"
  THEN [node EXCEPT !.content =
          Reverse([i \in 1..Len(node.content) |->
                     Entry(node.content[i].name, Reversed(node.content[i].node))])]
  ELSE node

\* the same tree with the first child of every directory inserted last
RECURSIVE Rotated(_)
Rotated(node) ==
  IF node.type = "directory" /\ node.content # <<>>
  THEN LET es == [i \in 1..Len(node.content) |->
                    Entry(node.content[i].name, Rotated(node.content[i].node))]
       IN [node EXCEPT !.content = Tail(es) \o <<Head(es)>>]
  ELSE node

\* a and b have the same names, node types and file contents at every
\* level (and, if owners is set, the same owners), in whatever order
RECURSIVE SameContent(_, _, _)
SameContent(a, b, owners) ==
  /\ a.type = b.type
  /\ owners => a.owner = b.owner
  /\ IF a.type = "directory"
     THEN /\ Range(Keys(a.content)) = Range(Keys(b.content))
          /\ Len(a.content) = Len(b.content)
          /\ \A i \in 1..Len(a.content) :
               SameContent(a.content[i].node,
                           b.content[IndexOf(b.content, a.content[i].name)].node, owners)
     ELSE a.text = b.text

Digest(fs) == get_vfs_info(fs, physical_path)[2]

\* the trees the session's tree is compared with: the same tree built in
\* two other insertion orders (Rebuilt), and the tree before the last command
Rebuilt ==
  { [filesystem EXCEPT ![<<Slash>>] = Reversed(@)], [filesystem EXCEPT ![<<Slash>>] = Rotated(@)] }

TreesAt == Rebuilt \cup (IF last.n > 0 THEN {Pre.filesystem} ELSE {})

BlankLines == { <<>>, <<Space>>, <<Space, Space>> }

\* C15: input that is empty after trimming (the empty string or a
\* whitespace-only string passed to execute_command, interactively or as
\* cmd_str) is a no-op: it returns (true, "") and leaves tree, cursor,
\* history and log unchanged.
C15_BlankIsNoOp ==
  /\ (last.n > 0 /\ Strip(last.cmd_str, Whitespace) = <<>>) =>
       /\ last.success /\ last.out = <<>>
       /\ Session = Pre
  /\ \A cmd_str \in BlankLines : \A from_script \in BOOLEAN :
       LET r == execute_command(Session, physical_path, cmd_str, from_script)
       IN /\ r.success /\ r.out = <<>>
          /\ [f \in DOMAIN Session |-> r[f]] = Session

\* the last command was cd or rm with no argument, or chown with fewer than two
TooFewArguments ==
  \/ (Ran("cd") \/ Ran("rm")) /\ Parsed.args = <<>>
  \/ Ran("chown") /\ Len(Parsed.args) < 2

UsageOf(cmd) ==
  IF cmd = <<"cd">> THEN <<"Usage: cd <path>">>
  ELSE IF cmd = <<"rm">> THEN <<"Usage: rm <file>">>
  ELSE <<"Usage: chown <owner> <file>">>

\* C16: a handler called with too few arguments (cd with none, rm with
\* none, chown with fewer than two) returns (false, usage message) without
\* raising, and leaves the tree and the cursor unchanged; the line is still
\* recorded in history and logged as a failure.
C16_UsageError ==
  /\ NewTree =>
       \A args \in { <<>>, << <<"u">> >> } :
         cmd_chown(filesystem, current_dir, quit, args)
           = Res(FALSE, UsageOf(<<"chown">>), filesystem, current_dir, quit)
  /\ TooFewArguments =>
       /\ ~last.success
       /\ last.out = UsageOf(last.handler)
       /\ ~last.escaped
       /\ filesystem = Pre.filesystem
       /\ current_dir = Pre.current_dir
       /\ command_history = Append(Pre.command_history, last.cmd_str)
       /\ log = Append(Pre.log, [command |-> last.cmd_str, success |-> FALSE,
                                 error_message |-> UsageOf(last.handler), username |-> USER])

\* chown with one argument was refused after cd with none had been
C16_Witness ==
  /\ Ran("chown") /\ Len(Parsed.args) = 1
  /\ ~last.success
  /\ Len(log) >= 2
  /\ log[Len(log) - 1].command = <<"cd">>
  /\ ~log[Len(log) - 1].success

\* the arguments ls is tried with on every tree and cursor: none, and each
\* of these
LsPaths ==
  { <<Slash, "etc">>, <<Slash, "etc", Slash, "motd">>, <<Slash, "tmp">>, <<Slash, "nowhere">>,
    <<"user">>, <<>> }

\* what ls prints for the node list_directory has resolved
Listing(node) ==
  IF node # None /\ node.type = "directory" /\ node.content # <<>>
  THEN Join(Keys(node.content), Newline)
  ELSE <<"Directory is empty">>

\* C17: ls returns success=true for every argument and in every reachable
\* state: for a Directory with children it returns their names in insertion
\* order, and for an empty directory, a path that does not resolve, or a
\* path that names a file it returns the same "directory empty" placeholder,
\* so a script is never stopped by an ls line.
C17_LsAlwaysSucceeds ==
  /\ Ran("ls") =>
       /\ last.success
       /\ last.out = Listing(_get_node(Pre.filesystem,
                                       IF Parsed.args = <<>> THEN Pre.current_dir
                                       ELSE Parsed.args[1]))
       /\ filesystem = Pre.filesystem /\ current_dir = Pre.current_dir
  /\ NewCursor =>
       cmd_ls(filesystem, current_dir, quit, <<>>)
         = Res(TRUE, Listing(_get_node(filesystem, current_dir)), filesystem, current_dir, quit)
  /\ NewTree =>
       \A path \in LsPaths :
         cmd_ls(filesystem, current_dir, quit, <<path>>)
           = Res(TRUE, Listing(_get_node(filesystem, path)), filesystem, current_dir, quit)
  /\ ncmds = 0 =>
       \A k \in 1..Len(executed) :
         LET p == parse_command(Strip(script[executed[k].line], Whitespace))
         IN (~p.raised /\ p.cmd = <<"ls">>) => executed[k].success
  /\ (ncmds = 0 /\ script_result = "False" /\ ~parse_command(Strip(script[reported_line], Whitespace)).raised)
       => parse_command(Strip(script[reported_line], Whitespace)).cmd # <<"ls">>

\* a script went on after an ls line and ran to its end, and ls of a file
\* printed the placeholder
C17_Witness ==
  /\ Ran("ls") /\ Parsed.args = << <<Slash, "etc", Slash, "motd">> >>
  /\ last.out = <<"Directory is empty">>
  /\ \E k \in 1..Len(executed) :
       /\ parse_command(Strip(script[executed[k].line], Whitespace)).cmd = <<"ls">>
       /\ executed[k].line < line_num
  /\ script_result = "True"

\* cursor positions of a second session on the same tree
OtherCursors ==
  { <<Slash>>, <<Slash, "etc">>, <<Slash, "home", Slash, "user">>, <<Slash, "gone">> }

\* C18: change_owner(path, owner) does not join the path with the current
\* directory: for any two sessions with the same tree and different cursor
\* positions, chown with the same arguments returns the same success flag and
\* sets the owner of the same node (the one reached from root), returns false
\* with the tree unchanged when that node does not exist, and never changes
\* the cursor.
C18_ChownIgnoresCursor ==
  (Ran("chown") /\ Len(Parsed.args) >= 2) =>
    LET args == Parsed.args
        owner == args[1]
        path == args[2]
        node == _get_node(Pre.filesystem, path)
    IN /\ last.success <=> node # None
       /\ ~last.success => filesystem = Pre.filesystem
       /\ last.success =>
            /\ _get_node(filesystem, path) = [node EXCEPT !.owner = <<owner>>]
            /\ Paths(filesystem) = Paths(Pre.filesystem)
            /\ \A p \in Paths(filesystem) :
                 /\ Shape(NodeAt(Root(filesystem), p)) = Shape(NodeAt(Root(Pre.filesystem), p))
                 /\ p # Segs(path) =>
                      NodeAt(Root(filesystem), p).owner = NodeAt(Root(Pre.filesystem), p).owner
       /\ current_dir = Pre.current_dir
       /\ \A cur \in OtherCursors :
            LET r == cmd_chown(Pre.filesystem, cur, Pre.quit, args)
            IN /\ r.success = last.success
               /\ r.filesystem = filesystem
               /\ r.current_dir = cur

\* with the cursor at /etc, chown u motd found no node motd under the root
\* and changed nothing, although /etc/motd exists
C18_Witness ==
  /\ Ran("chown")
  /\ Parsed.args = << <<"u">>, <<"motd">> >>
  /\ Pre.current_dir = <<Slash, "etc">>
  /\ ~last.success
  /\ NodeAt(Root(filesystem), <<(<<"etc">>), (<<"motd">>)>>) # None
  /\ filesystem = Pre.filesystem

\* C19: remove and path resolution agree on which paths exist: rm P succeeds
\* exactly when P (joined with the current directory if relative) resolves
\* through _get_node to a non-root node, including paths written with a
\* trailing slash such as "/home/" on which cd succeeds.
C19_RemoveAgreesWithResolution ==
  (Ran("rm") /\ Parsed.args # <<>>) =>
    (last.success <=>
       /\ _get_node(Pre.filesystem, RmTarget) # None
       /\ RmTarget # <<Slash>>)

\* the k-th logged line is an exit command
IsExit(k) ==
  LET p == parse_command(log[k].command)
  IN ~p.raised /\ p.cmd = <<"exit">>

\* C20: an exit command returns success and ends command processing: once
\* exit has been executed, in a startup script or interactively, no later
\* command is executed against the session (no later line changes the tree,
\* cursor, history or log).
C20_ExitEndsProcessing ==
  /\ \A k \in 1..Len(log) : IsExit(k) => (log[k].success /\ k = Len(log))
  /\ (Ran("exit") /\ pc # "script") => ~ENABLED Submit(<<"ls">>)

====
